---- MODULE Spec2Model ----
(***************************************************************************)
(* Model of rec_to_nwb's video timestamp extractor                         *)
(* (FlVideoFilesExtractor) and of the per-date build loop                  *)
(* (RawToNWBBuilder.build_nwb / cleanup).                                  *)
(*                                                                         *)
(* Strings are sequences of pieces (one-character pieces where the code    *)
(* slices them), "+" is \o.  A Python call is an outcome record whose exc  *)
(* field is "None" on a normal return and the exception's type otherwise.  *)
(***************************************************************************)
EXTENDS Integers, Sequences, FiniteSets, TLC

VARIABLES
    \* ---- FlVideoFilesExtractor
    video_files_metadata,   \* self.video_files_metadata
    convert_timestamps,     \* self.convert_timestamps
    return_timestamps,      \* self.return_timestamps
    disk,                   \* state of every timestamp file under raw_data_path
    epc,                    \* position in extract_video_files
    idx,                    \* 1-based position of the for loop
    extracted_video_files,  \* the list being built
    eraised,                \* the exception extract_video_files ended with
    attempts,               \* calls of the two _read_video_timestamps_* helpers
    reads,                  \* calls of readTrodesExtractedDataFile
    events,                 \* logger.info events
    \* ---- RawToNWBBuilder
    dates,                  \* self.dates
    bpc,                    \* position in build_nwb
    di,                     \* 1-based position of the for loop over dates
    content,                \* the local variable content (Unbound before the loop)
    result,                 \* the value build_nwb returned
    braised,                \* the exception build_nwb ended with
    calls,                  \* collaborator calls made by build_nwb
    fs,                     \* directories and files that exist
    cleanup_log             \* one entry per cleanup() call made

evars == <<video_files_metadata, convert_timestamps, return_timestamps, disk, epc,
           idx, extracted_video_files, eraised, attempts, reads, events>>
bvars == <<dates, bpc, di, content, result, braised, calls, fs, cleanup_log>>
vars == <<evars, bvars>>

-----------------------------------------------------------------------------
(* Bounds *)

MaxStreams == 2
MaxDates == 2
MaxCleanups == 2

-----------------------------------------------------------------------------
(* Strings, paths and arrays *)

NANOSECONDS_PER_SECOND == 1000000000

\* name[:-4]
Stem(name) == SubSeq(name, 1, Len(name) - 4)

\* os.path.join(a, b) on POSIX
PathJoin(a, b) ==
    IF b # <<>> /\ Head(b) = "/" THEN b
    ELSE IF a = <<>> \/ a[Len(a)] = "/" THEN a \o b
    ELSE a \o <<"/">> \o b

\* A numeric ndarray: element i is num[i] / den.
IntArray(xs) == [dtype |-> "int", num |-> xs, den |-> 1]
\* np.array([])
EmptyArray == [dtype |-> "float", num |-> <<>>, den |-> 1]

\* timestamps / NANOSECONDS_PER_SECOND
ConvertTimestamps(timestamps) ==
    [dtype |-> "float", num |-> timestamps.num,
     den |-> timestamps.den * NANOSECONDS_PER_SECOND]

-----------------------------------------------------------------------------
(* FlVideoFilesExtractor: inputs *)

raw_data_path == <<"raw">>

HWSyncSuffix == <<"videoTimeStamps.cameraHWSync">>
HWFrameCountSuffix == <<"videoTimeStamps.cameraHWFrameCount">>

StreamNames == { <<"a", ".", "m", "p", "4">>, <<"b", "c", ".", "a", "v", "i">> }
CameraIds == {7}
VideoFiles == [name : StreamNames, camera_id : CameraIds]

HWSyncPath(video_file) == PathJoin(raw_data_path, Stem(video_file.name) \o HWSyncSuffix)
HWFrameCountPath(video_file) ==
    PathJoin(raw_data_path, Stem(video_file.name) \o HWFrameCountSuffix)

TimestampPaths ==
    { HWSyncPath(v) : v \in VideoFiles } \cup { HWFrameCountPath(v) : v \in VideoFiles }

FileStates == {"absent", "unreadable", "present"}

\* The fields a present timestamp file holds.
HWTimestampValues == <<1000000000, 2000000000>>
FrameCountValues == <<0, 1, 2>>
FileFields(p) ==
    IF p[Len(p)] = HWSyncSuffix[1]
    THEN [f \in {"HWTimestamp"} |-> IntArray(HWTimestampValues)]
    ELSE [f \in {"frameCount"} |-> IntArray(FrameCountValues)]

-----------------------------------------------------------------------------
(* Python values and outcomes of calls *)

StrValue(s) == [t |-> "str", s |-> s]
DictValue(m) == [t |-> "dict", m |-> m]
ArrayValue(a) == [t |-> "ndarray", a |-> a]

Return(v) == [exc |-> "None", val |-> v]
Raise(e) == [exc |-> e, val |-> StrValue(<<>>)]

\* value[key] with a str key
Subscript(value, key) ==
    IF value.t = "str" THEN Raise("TypeError")
    ELSE IF value.t = "dict"
         THEN IF key \in DOMAIN value.m THEN Return(value.m[key]) ELSE Raise("KeyError")
         ELSE Raise("IndexError")

\* readTrodesExtractedDataFile(arg): the external reader of rec_to_binaries.
\* It opens the file; a missing path is FileNotFoundError, any other file-access
\* failure is another OSError.
readTrodesExtractedDataFile(arg) ==
    IF arg.t # "str" THEN Raise("TypeError")
    ELSE IF arg.s \notin DOMAIN disk THEN Raise("FileNotFoundError")
    ELSE IF disk[arg.s] = "absent" THEN Raise("FileNotFoundError")
    ELSE IF disk[arg.s] = "unreadable" THEN Raise("PermissionError")
    ELSE Return(DictValue(
            [k \in {"data"} |->
                DictValue([f \in DOMAIN FileFields(arg.s) |->
                              ArrayValue(FileFields(arg.s)[f])])]))

\* reader(os.path.join(...)['data'][field]): Python evaluates the argument, the two
\* subscripts on the joined path included, before it calls the reader, and the
\* helper returns what the reader returns.  reads lists the reader calls made.
ReadField(path, field) ==
    LET d == Subscript(StrValue(path), "data") IN
    IF d.exc # "None" THEN [exc |-> d.exc, val |-> d.val, reads |-> <<>>]
    ELSE LET f == Subscript(d.val, field) IN
         IF f.exc # "None" THEN [exc |-> f.exc, val |-> f.val, reads |-> <<>>]
         ELSE LET r == readTrodesExtractedDataFile(f.val) IN
              [exc |-> r.exc, val |-> r.val, reads |-> <<f.val>>]

_read_video_timestamps_hw_sync(video_file) ==
    ReadField(HWSyncPath(video_file), "HWTimestamp")

_read_video_timestamps_hw_framecount(video_file) ==
    ReadField(HWFrameCountPath(video_file), "frameCount")

\* timestamps / NANOSECONDS_PER_SECOND on a Python value
_convert_timestamps(timestamps) ==
    IF timestamps.t = "ndarray"
    THEN Return(ArrayValue(ConvertTimestamps(timestamps.a)))
    ELSE Raise("TypeError")

\* except FileNotFoundError:
CatchesAnyException(e) == TRUE
ExceptClauseCatches(e) == e = "FileNotFoundError"

\* One helper call as the attempts log records it.
Attempt(which, video_file, r) ==
    [which |-> which, name |-> video_file.name, exc |-> r.exc]

\* logger.info(...)
Event(text, video_file) == [text |-> text, stem |-> Stem(video_file.name)]

\* _get_timestamps(video_file): the outcome, with the helper calls, reader calls
\* and log events it made.
_get_timestamps(video_file) ==
    LET hw == _read_video_timestamps_hw_sync(video_file)
        hwAttempt == Attempt("hw_sync", video_file, hw)
        Finish(video_timestamps, is_old_dataset, atts, rds, evs) ==
            LET r == IF is_old_dataset \/ ~convert_timestamps
                     THEN Return(video_timestamps)
                     ELSE _convert_timestamps(video_timestamps)
            IN [exc |-> r.exc, origin |-> IF r.exc = "None" THEN "None" ELSE "convert",
                val |-> r.val, attempts |-> atts, reads |-> rds, events |-> evs]
    IN
    IF hw.exc = "None"
    THEN Finish(hw.val, FALSE, <<hwAttempt>>, hw.reads,
                <<Event("Loaded cameraHWSync timestamps", video_file)>>)
    ELSE IF ExceptClauseCatches(hw.exc)
    THEN LET fc == _read_video_timestamps_hw_framecount(video_file)
             fcAttempt == Attempt("hw_framecount", video_file, fc)
         IN IF fc.exc = "None"
            THEN Finish(fc.val, TRUE, <<hwAttempt, fcAttempt>>, hw.reads \o fc.reads,
                        <<Event("Loaded cameraHWFrameCount (old dataset)", video_file)>>)
            ELSE [exc |-> fc.exc, origin |-> "hw_framecount", val |-> fc.val,
                  attempts |-> <<hwAttempt, fcAttempt>>, reads |-> hw.reads \o fc.reads,
                  events |-> <<>>]
    ELSE [exc |-> hw.exc, origin |-> "hw_sync", val |-> hw.val,
          attempts |-> <<hwAttempt>>, reads |-> hw.reads, events |-> <<>>]

\* if self.return_timestamps:
AlwaysRetrieve == TRUE
RetrievalEnabled == return_timestamps

\* The timestamps of one loop iteration of extract_video_files.
IterationTimestamps(video_file) ==
    IF RetrievalEnabled
    THEN _get_timestamps(video_file)
    ELSE [exc |-> "None", origin |-> "None", val |-> ArrayValue(EmptyArray),
          attempts |-> <<>>, reads |-> <<>>, events |-> <<>>]

NoException == [type |-> "None", origin |-> "None", stream |-> 0]

-----------------------------------------------------------------------------
(* FlVideoFilesExtractor: the state machine *)

MetadataLists ==
    UNION { [1..n -> VideoFiles] : n \in 0..MaxStreams }

\* No extractor has been constructed.
NoExtractor ==
    /\ video_files_metadata = <<>>
    /\ convert_timestamps = TRUE
    /\ return_timestamps = TRUE
    /\ disk = [p \in TimestampPaths |-> "absent"]
    /\ epc = "none"
    /\ idx = 1
    /\ extracted_video_files = <<>>
    /\ eraised = NoException
    /\ attempts = <<>>
    /\ reads = <<>>
    /\ events = <<>>

\* __init__ and the first two lines of extract_video_files
ExtractorInit ==
    /\ video_files_metadata \in MetadataLists
    /\ convert_timestamps \in BOOLEAN
    /\ return_timestamps \in BOOLEAN
    /\ disk \in [TimestampPaths -> FileStates]
    /\ epc = "loop"
    /\ idx = 1
    /\ extracted_video_files = <<>>
    /\ eraised = NoException
    /\ attempts = <<>>
    /\ reads = <<>>
    /\ events = <<>>

\* One iteration of "for video_file in video_files".
ExtractVideoFile ==
    /\ epc = "loop"
    /\ idx <= Len(video_files_metadata)
    /\ LET video_file == video_files_metadata[idx]
           ts == IterationTimestamps(video_file)
       IN /\ attempts' = attempts \o ts.attempts
          /\ reads' = reads \o ts.reads
          /\ events' = events \o ts.events
          /\ IF ts.exc = "None"
             THEN /\ extracted_video_files' =
                        Append(extracted_video_files,
                               [name |-> video_file.name,
                                timestamps |-> ts.val,
                                device |-> video_file.camera_id])
                  /\ idx' = idx + 1
                  /\ UNCHANGED <<epc, eraised>>
             ELSE /\ epc' = "raised"
                  /\ eraised' = [type |-> ts.exc, origin |-> ts.origin, stream |-> idx]
                  /\ UNCHANGED <<extracted_video_files, idx>>
    /\ UNCHANGED <<video_files_metadata, convert_timestamps, return_timestamps, disk>>
    /\ UNCHANGED bvars

\* return extracted_video_files
ExtractReturn ==
    /\ epc = "loop"
    /\ idx > Len(video_files_metadata)
    /\ epc' = "returned"
    /\ UNCHANGED <<video_files_metadata, convert_timestamps, return_timestamps, disk,
                   idx, extracted_video_files, eraised, attempts, reads, events>>
    /\ UNCHANGED bvars

-----------------------------------------------------------------------------
(* RawToNWBBuilder: inputs *)

data_path == <<"data">>
animal_name == <<"beans">>
output_path == <<"out", "/">>

Dates == { <<"20190718">>, <<"20190719">> }
DateLists == UNION { [1..n -> Dates] : n \in 0..MaxDates }

\* self.data_path + '/' + self.animal_name + '/preprocessing'
PreprocessingDir == data_path \o <<"/">> \o animal_name \o <<"/", "preprocessing">>

\* self.output_path + self.animal_name + date + ".nwb"
OutputFile(date) == output_path \o animal_name \o date \o <<".nwb">>

\* Paths the model's filesystem can hold.
AnimalDir == data_path \o <<"/">> \o animal_name
RawDir == AnimalDir \o <<"/", "raw">>
PreprocessingDateDir == PreprocessingDir \o <<"/", "20190718">>
PreprocessingFile == PreprocessingDateDir \o <<"/", "beans.mda">>
SiblingDir == AnimalDir \o <<"/", "preprocessing_old">>
OtherAnimalDir == data_path \o <<"/", "other">>
OtherPreprocessingDir == OtherAnimalDir \o <<"/", "preprocessing">>

PreprocessingTree == {PreprocessingDir, PreprocessingDateDir, PreprocessingFile}
BaseFs == {data_path, AnimalDir, RawDir}
InitialFilesystems ==
    { BaseFs \cup a \cup b \cup c :
        a \in { {}, {PreprocessingDir}, {PreprocessingDir, PreprocessingDateDir},
                PreprocessingTree },
        b \in { {}, {SiblingDir} },
        c \in { {}, {OtherAnimalDir}, {OtherAnimalDir, OtherPreprocessingDir} } }

\* q is p or lies inside the directory p
IsUnder(q, p) ==
    \/ q = p
    \/ /\ Len(q) > Len(p)
       /\ SubSeq(q, 1, Len(p)) = p
       /\ q[Len(p) + 1] = "/"

\* os.path.exists(p)
PathExists(files, p) == p \in files

\* shutil.rmtree(p)
Rmtree(files, p) ==
    IF p \in files
    THEN [exc |-> "None", fs |-> { q \in files : ~IsUnder(q, p) }]
    ELSE [exc |-> "FileNotFoundError", fs |-> files]

\* if os.path.exists(preprocessing):
SkipExistsCheck(files) == TRUE
ShouldRemove(files) == PathExists(files, PreprocessingDir)

\* cleanup()
CleanupOutcome(files) ==
    IF ShouldRemove(files)
    THEN Rmtree(files, PreprocessingDir)
    ELSE [exc |-> "None", fs |-> files]

Unbound == [bound |-> FALSE, id |-> 0, date |-> <<>>]
NoFailure == [type |-> "None", at |-> 0]

\* for date in self.dates: the date of iteration i
DateAtReversed(i) == dates[Len(dates) + 1 - i]
DateAt(i) == dates[i]

Call(op, date, c) ==
    [op |-> op, date |-> date,
     output_file |-> IF op = "preprocess" THEN <<>> ELSE OutputFile(date),
     content |-> c.id]

\* Number of content objects built so far.
BuiltCount == Cardinality({ k \in DOMAIN calls : calls[k].op = "build" })

\* Where control goes after a collaborator call: an exception leaves build_nwb.
IgnoreFailure(ok, next) == next
StepAfter(ok, next) == IF ok THEN next ELSE "raised"

\* content = nwb_builder.build()
KeepFirstContent(new) == IF content.bound THEN content ELSE new
AssignContent(new) == new

\* return content: the name content is bound only by the loop body
ContentPreset == TRUE
ContentBound == content.bound

-----------------------------------------------------------------------------
(* RawToNWBBuilder: the state machine *)

\* No builder has been constructed.
NoBuilder ==
    /\ dates = <<>>
    /\ bpc = "none"
    /\ di = 1
    /\ content = Unbound
    /\ result = Unbound
    /\ braised = NoFailure
    /\ calls = <<>>
    /\ fs = BaseFs
    /\ cleanup_log = <<>>

\* __init__
BuilderInit ==
    /\ dates \in DateLists
    /\ bpc = "idle"
    /\ di = 1
    /\ content = Unbound
    /\ result = Unbound
    /\ braised = NoFailure
    /\ calls = <<>>
    /\ fs \in InitialFilesystems
    /\ cleanup_log = <<>>

\* build_nwb: self.__preprocess_data().  The extractor fills the preprocessing
\* directory; when it fails it may have created the directory already.
Preprocess ==
    /\ bpc = "idle"
    /\ calls' = Append(calls, Call("preprocess", <<>>, Unbound))
    /\ \E ok \in BOOLEAN :
        /\ bpc' = StepAfter(ok, "loop")
        /\ IF ok
           THEN /\ fs' = fs \cup PreprocessingTree
                /\ UNCHANGED braised
           ELSE /\ fs' \in {fs, fs \cup {PreprocessingDir}}
                /\ braised' = [type |-> "ExtractionError", at |-> Len(calls')]
    /\ UNCHANGED <<dates, di, content, result, cleanup_log>>
    /\ UNCHANGED evars

\* NWBFileBuilder(...), content = nwb_builder.build()
BuildDate ==
    /\ bpc = "loop"
    /\ di <= Len(dates)
    /\ LET date == DateAt(di)
           new == [bound |-> TRUE, id |-> BuiltCount + 1, date |-> date]
       IN /\ calls' = Append(calls, Call("build", date, new))
          /\ \E ok \in BOOLEAN :
              /\ bpc' = StepAfter(ok, "write")
              /\ IF ok
                 THEN /\ content' = AssignContent(new)
                      /\ UNCHANGED braised
                 ELSE /\ braised' = [type |-> "BuildFailure", at |-> Len(calls')]
                      /\ UNCHANGED content
    /\ UNCHANGED <<dates, di, result, fs, cleanup_log>>
    /\ UNCHANGED evars

\* nwb_builder.write(content)
WriteDate ==
    /\ bpc = "write"
    /\ calls' = Append(calls, Call("write", DateAt(di), content))
    /\ \E ok \in BOOLEAN :
        /\ bpc' = StepAfter(ok, "loop")
        /\ IF ok
           THEN /\ di' = di + 1
                /\ UNCHANGED braised
           ELSE /\ braised' = [type |-> "WriteFailure", at |-> Len(calls')]
                /\ UNCHANGED di
    /\ UNCHANGED <<dates, content, result, fs, cleanup_log>>
    /\ UNCHANGED evars

\* return content
ReturnContent ==
    /\ bpc = "loop"
    /\ di > Len(dates)
    /\ IF ContentBound
       THEN /\ bpc' = "returned"
            /\ result' = content
            /\ UNCHANGED braised
       ELSE /\ bpc' = "raised"
            /\ braised' = [type |-> "UnboundLocalError", at |-> Len(calls)]
            /\ UNCHANGED result
    /\ UNCHANGED <<dates, di, content, calls, fs, cleanup_log>>
    /\ UNCHANGED evars

\* cleanup(), called by the caller while build_nwb is not running
Cleanup ==
    /\ bpc \in {"idle", "returned", "raised"}
    /\ Len(cleanup_log) < MaxCleanups
    /\ LET r == CleanupOutcome(fs)
       IN /\ fs' = r.fs
          /\ cleanup_log' = Append(cleanup_log,
                                   [existed |-> PathExists(fs, PreprocessingDir),
                                    exc |-> r.exc])
    /\ UNCHANGED <<dates, bpc, di, content, result, braised, calls>>
    /\ UNCHANGED evars

-----------------------------------------------------------------------------
(* Specification *)

Init ==
    \/ ExtractorInit /\ NoBuilder
    \/ NoExtractor /\ BuilderInit

Next ==
    \/ ExtractVideoFile
    \/ ExtractReturn
    \/ Preprocess
    \/ BuildDate
    \/ WriteDate
    \/ ReturnContent
    \/ Cleanup

Spec == Init /\ [][Next]_vars

-----------------------------------------------------------------------------
(* Properties of extract_video_files *)

\* Iteration i of the loop over the streams has run (to a record or to an exception).
Processed(i) == i < idx \/ (epc = "raised" /\ eraised.stream = i)

SyncState(i) == disk[HWSyncPath(video_files_metadata[i])]
FrameCountState(i) == disk[HWFrameCountPath(video_files_metadata[i])]

\* The reader calls made on the two timestamp files of stream i.
ReadsOf(i) ==
    LET OfStream(r) ==
            r \in {StrValue(HWSyncPath(video_files_metadata[i])),
                   StrValue(HWFrameCountPath(video_files_metadata[i]))}
    IN SelectSeq(reads, OfStream)

\* The record of stream i exists and holds the timestamps ts.
Yields(i, ts) ==
    /\ i <= Len(extracted_video_files)
    /\ extracted_video_files[i].name = video_files_metadata[i].name
    /\ extracted_video_files[i].timestamps = ArrayValue(ts)

\* C1: a processed stream whose hardware-sync file is absent and whose frame-count
\* file is present, with timestamp retrieval enabled, yields a record whose
\* timestamps are the raw frameCount values, not divided, whatever
\* convert_timestamps is.
C1_LegacyOverride ==
    \A i \in DOMAIN video_files_metadata :
        (return_timestamps /\ Processed(i)
            /\ SyncState(i) = "absent" /\ FrameCountState(i) = "present")
        => Yields(i, IntArray(FrameCountValues))

\* C2: a processed stream whose hardware-sync file is present, with timestamp
\* retrieval enabled, yields the raw HWTimestamp values divided by 10^9 when
\* convert_timestamps holds and the raw values otherwise, never the frameCount values.
C2_HwSyncTimestamps ==
    \A i \in DOMAIN video_files_metadata :
        (return_timestamps /\ Processed(i) /\ SyncState(i) = "present")
        => IF convert_timestamps
           THEN Yields(i, [dtype |-> "float", num |-> HWTimestampValues,
                           den |-> NANOSECONDS_PER_SECOND])
           ELSE Yields(i, IntArray(HWTimestampValues))

\* C3: when the hardware-sync read of a stream fails with anything but not-found,
\* extract_video_files ends with that failure, raised by that read; the frame-count
\* read is not attempted and its file is not read, and the stream gets no record.
C3_OnlyNotFoundFallsBack ==
    \A k \in DOMAIN attempts :
        (attempts[k].which = "hw_sync"
            /\ attempts[k].exc \notin {"None", "FileNotFoundError"})
        => /\ epc = "raised"
           /\ eraised.type = attempts[k].exc
           /\ eraised.origin = "hw_sync"
           /\ video_files_metadata[eraised.stream].name = attempts[k].name
           /\ k = Len(attempts)
           /\ \A r \in DOMAIN reads :
                reads[r] # StrValue(HWFrameCountPath(video_files_metadata[eraised.stream]))
           /\ Len(extracted_video_files) = eraised.stream - 1

C3_Witness ==
    /\ epc = "raised"
    /\ eraised.origin = "hw_sync"
    /\ eraised.type \notin {"None", "FileNotFoundError"}
    /\ Len(attempts) = 1
    /\ SyncState(eraised.stream) = "unreadable"
    /\ FrameCountState(eraised.stream) = "present"

\* C4: a processed stream with neither file, with timestamp retrieval enabled, ends
\* extract_video_files with FileNotFoundError after exactly two reads, the
\* hardware-sync file and then the frame-count file, and gets no record.
C4_NeitherFile ==
    \A i \in DOMAIN video_files_metadata :
        (return_timestamps /\ Processed(i)
            /\ SyncState(i) = "absent" /\ FrameCountState(i) = "absent")
        => /\ epc = "raised"
           /\ eraised.stream = i
           /\ eraised.type = "FileNotFoundError"
           /\ ReadsOf(i) = <<StrValue(HWSyncPath(video_files_metadata[i])),
                             StrValue(HWFrameCountPath(video_files_metadata[i]))>>
           /\ Len(extracted_video_files) = i - 1

\* C5: with return_timestamps false, whatever the streams and the files, no read
\* helper and no reader is called, extract_video_files does not fail, and every
\* record has an empty timestamps array; it returns one record per stream.
C5_RetrievalDisabled ==
    (epc # "none" /\ ~return_timestamps)
    => /\ reads = <<>>
       /\ attempts = <<>>
       /\ epc # "raised"
       /\ eraised = NoException
       /\ \A i \in DOMAIN extracted_video_files :
            /\ extracted_video_files[i].timestamps.t = "ndarray"
            /\ extracted_video_files[i].timestamps.a.num = <<>>
       /\ (epc = "returned"
            => Len(extracted_video_files) = Len(video_files_metadata))

C5_Witness ==
    /\ ~return_timestamps
    /\ epc = "returned"
    /\ Len(extracted_video_files) = 2
    /\ \E i, j \in DOMAIN video_files_metadata :
        /\ SyncState(i) = "unreadable"
        /\ SyncState(j) = "absent" /\ FrameCountState(j) = "absent"

-----------------------------------------------------------------------------
(* Properties of build_nwb and cleanup *)

CollaboratorFailures == {"ExtractionError", "BuildFailure", "WriteFailure"}
Ended == bpc \in {"returned", "raised"}

\* preprocess, build(d1), write(d1), ..., build(dn), write(dn)
ExpectedCalls ==
    [k \in 1..(2 * Len(dates) + 1) |->
        IF k = 1 THEN <<"preprocess", <<>> >>
        ELSE IF k % 2 = 0 THEN <<"build", dates[k \div 2]>>
        ELSE <<"write", dates[(k - 1) \div 2]>>]

MadeCalls == [k \in DOMAIN calls |-> <<calls[k].op, calls[k].date>>]

\* C6: while no collaborator has failed, the calls made are a prefix of
\* preprocess, build(d1), write(d1), ..., build(dn), write(dn), and once build_nwb
\* has ended they are exactly that sequence (n = 0 included).
C6_CallSequence ==
    (bpc # "none" /\ braised.type \notin CollaboratorFailures)
    => /\ Len(MadeCalls) <= Len(ExpectedCalls)
       /\ MadeCalls = SubSeq(ExpectedCalls, 1, Len(MadeCalls))
       /\ (Ended => MadeCalls = ExpectedCalls)

C6_Witness ==
    /\ bpc = "returned"
    /\ Len(dates) = 2
    /\ dates[1] # dates[2]
    /\ Len(calls) = 5

\* C7: a collaborator failure ends build_nwb with that failure and without a
\* result, and the failing call is the last call made: after a failed preprocess
\* no build or write, after a failed build(di) no write(di), and nothing for a
\* later date.
C7_FailureAborts ==
    braised.type \in CollaboratorFailures
    => /\ bpc = "raised"
       /\ result = Unbound
       /\ Len(calls) = braised.at
       /\ (braised.type = "ExtractionError"
            => \A k \in DOMAIN calls : calls[k].op = "preprocess")
       /\ (braised.type = "BuildFailure"
            => /\ calls[Len(calls)].op = "build"
               /\ calls[Len(calls)].date = dates[di])
       /\ (braised.type = "WriteFailure"
            => /\ calls[Len(calls)].op = "write"
               /\ calls[Len(calls)].date = dates[di])

C7_Witness ==
    /\ braised.type = "BuildFailure"
    /\ Len(dates) = 2
    /\ di = 1
    /\ Len(calls) = 2

\* C8: with at least one date, when no collaborator fails build_nwb returns, and
\* what it returns is the content built for the last element of dates (the last
\* build call), never an earlier one.
C8_ReturnsLastContent ==
    /\ (Ended /\ Len(dates) > 0 /\ braised.type \notin CollaboratorFailures)
        => bpc = "returned"
    /\ bpc = "returned"
        => /\ Len(dates) > 0
           /\ result.bound
           /\ result.date = dates[Len(dates)]
           /\ calls[Len(calls) - 1].op = "build"
           /\ result.id = calls[Len(calls) - 1].content
           /\ \A k \in 1..(Len(calls) - 2) :
                calls[k].op = "build" => calls[k].content # result.id

C8_Witness ==
    /\ bpc = "returned"
    /\ Len(dates) = 2
    /\ result.id = 2

\* C9: a cleanup() call that finds no preprocessing directory does not raise and
\* leaves the filesystem as it was; one that finds it removes exactly that
\* directory's tree; either way a second cleanup() right after would not raise and
\* would change nothing.
C9_CleanupIdempotent ==
    [][ cleanup_log' # cleanup_log
        => /\ cleanup_log'[Len(cleanup_log')].exc = "None"
           /\ (PreprocessingDir \notin fs => fs' = fs)
           /\ (PreprocessingDir \in fs => fs' = fs \ PreprocessingTree)
           /\ CleanupOutcome(fs') = [exc |-> "None", fs |-> fs'] ]_vars

C9_Witness ==
    /\ bpc = "returned"
    /\ Len(cleanup_log) = 2
    /\ cleanup_log[1].existed
    /\ ~cleanup_log[2].existed
    /\ {SiblingDir, OtherPreprocessingDir, RawDir} \subseteq fs
    /\ PreprocessingTree \cap fs = {}

\* C10: with no dates and a successful preprocess, build_nwb makes the preprocess
\* call and no other, does not return a content, and ends with UnboundLocalError.
C10_EmptyDates ==
    (Len(dates) = 0 /\ bpc \notin {"none", "idle"} /\ braised.type # "ExtractionError")
    => /\ Len(calls) = 1
       /\ calls[1].op = "preprocess"
       /\ bpc \in {"loop", "raised"}
       /\ result = Unbound
       /\ (bpc = "raised" => braised.type = "UnboundLocalError")

C10_Witness ==
    /\ Len(dates) = 0
    /\ bpc = "raised"
    /\ braised.type = "UnboundLocalError"
    /\ Len(calls) = 1

====
